---- MODULE Spec2Model ----
(***************************************************************************)
(* Overlap detection of the GPX comparator (src/app.js).                  *)
(*                                                                         *)
(* This part models the hysteresis classifier of findAndDrawOverlap        *)
(* (src/app.js:357-384): the for-of loop over the resampled probe track   *)
(* and the push that follows it.  One step of the model is one iteration  *)
(* of that loop, or the statement after it.                                *)
(*                                                                         *)
(* A sample is named by its position in `sampled` (1..Len), so a segment, *)
(* which the code keeps as an array of the coordinates it pushed, is the   *)
(* sequence of the positions of those coordinates.  distM[i] is the value  *)
(* turf.pointToLineDistance returns for sampled[i], in meters.             *)
(*                                                                         *)
(* Spec explores the classifier over every stream of distances.            *)
(* SpecCompare explores whole comparisons: two files are picked, one per   *)
(* row; each is stored by processTrack and followed by checkForOverlap,    *)
(* which runs findAndDrawOverlap once both rows hold a track.  There the   *)
(* tracks lie on one meridian, so a coordinate is a whole number of meters *)
(* along it and the turf calls are computed exactly.  Every length of the  *)
(* model is in meters, also where the source's name says km.               *)
(*                                                                         *)
(* SpecUI explores the page itself: up to MAX_TRACKS rows, files picked,   *)
(* file reads that finish later and in any order, tracks removed.          *)
(* SpecPickers explores the file pickers of the earlier app of             *)
(* src/unnamed/part_001, SpecHaversine the two haversine functions of      *)
(* src/unnamed/part_000 and part_001.                                      *)
(***************************************************************************)
EXTENDS Integers, Sequences, FiniteSets, TLC

\* Longest resampled probe track explored: long enough for two segments that
\* are both closed inside the loop (near, near, far, near, near, far).
MaxSamples == 6

OVERLAP_THRESHOLD_METERS == 20

RESAMPLE_STEP_METERS == 10

\* Most points of a picked file.
MaxPoints == 2

\* Positions of track points on the meridian, in meters.
Coords == {0, 35, 97, 132}

\* The two rows files are picked in.
Rows == {1, 2}

MAX_TRACKS == 4

\* The rows of the page, in the order addFileInput appends them.
Slots == 1..MAX_TRACKS

\* Most file reads in flight at once.
MaxPending == 2

\* A track that turns back between two resampling offsets, explored whatever
\* MaxPoints is.
Bends == {<<0, 35, 0>>}

enterThresh == OVERLAP_THRESHOLD_METERS

exitThresh_noHysteresis == OVERLAP_THRESHOLD_METERS

exitThresh == OVERLAP_THRESHOLD_METERS + 5

\* Distances a sample can have to the reference line: well inside, on the
\* enter threshold, in the hysteresis band, on the exit threshold, beyond.
DistVals == {5, 20, 22, 25, 30}

VARIABLES
  distM,                \* distM[i]: distance of sampled[i] to longLine
  k,                    \* number of samples the for-of loop has consumed
  inside,               \* let inside
  current,              \* let current: the open segment
  overlappingSegments,  \* const overlappingSegments: the emitted segments
  pc,                   \* "loop": in the for-of loop; "done": past line 384;
                        \* "idle": findAndDrawOverlap has not been entered
  tracksData,           \* let tracksData: row -> NoTrack or the stored track
  picked,               \* rows whose file input is replaced by name and button
  alerted,              \* the last handler ended in its catch branch
  shortLine,            \* const shortLine: the coordinates of the probe
  longLine,             \* const longLine: the coordinates of the reference
  sampled,              \* const sampled: the resampled probe
  overlapLayer,         \* let overlapLayer: NoLayer or the drawn lines
  statsSection,         \* the stats section: its display, items and labels
  rowCount,             \* inputsDiv.children.length
  pending,              \* file reads in flight: <<row, file>> of each await
  mapLayers,            \* let mapLayers: row -> NoLayer or the track polyline
  mapOverlap,           \* the overlap polylines that are on the map
  chartDatasets,        \* let chartDatasets: row -> NoLayer or <<the dataset>>
  rowFile,              \* row -> NoFile or the file whose name the row shows
  tracks,               \* part_001: const tracks, the entries of the array
  wrappers,             \* part_001: the idx of each picker row of inputsDiv
  reading,              \* part_001: the idx of each FileReader in flight
  havArgs,              \* the points a and b, and the rounding of the sum
  havResult             \* what the haversine function returned

\* The locals of the classifier loop.
loopVars == <<distM, k, inside, current, overlappingSegments, pc>>

\* The rest: the rows, and the other locals and outputs of a comparison.
compareVars ==
  <<tracksData, picked, alerted, shortLine, longLine, sampled,
    overlapLayer, statsSection>>

\* The page around the comparison.
uiVars == <<rowCount, pending, mapLayers, mapOverlap, chartDatasets, rowFile>>

\* The file pickers of the earlier app (src/unnamed/part_001:1-147).
pickerVars == <<tracks, wrappers, reading>>

\* One call of a haversine function.
havVars == <<havArgs, havResult>>

vars == <<loopVars, compareVars, uiVars, pickerVars, havVars>>

\* tracksData[i] === null or undefined.  processTrack never stores a track
\* without points, so the record without points stands for it.
NoTrack == [points |-> <<>>, totalDistance |-> 0]

\* overlapLayer === null; a layer is <<its lines>>.
NoLayer == <<>>

\* The row shows its file input: no span.file-name and no remove button.
NoFile == [picked |-> FALSE]

\* The file names of the rows with that of row i replaced; where the names
\* are left out, rows is empty and stays so.
WithName(rows, i, shown) ==
  IF i \in DOMAIN rows THEN [rows EXCEPT ![i] = shown] ELSE rows

\* The stats section as clearOverlapStats leaves it.
NoStats == [display |-> "none", items |-> <<>>, labels |-> <<>>]

\* document.getElementById('stats-section') === null: createStatsSection found
\* no .sidebar-content on the page and created nothing.
MissingStats == [display |-> "missing", items |-> <<>>, labels |-> <<>>]

\* All sequences over S of length lo..hi.
SeqsOf(S, lo, hi) == UNION {[1..n -> S] : n \in lo..hi}

\* sampled always holds at least one coordinate (d = 0 passes the loop test).
SampleStreams == SeqsOf(DistVals, 1, MaxSamples)

-----------------------------------------------------------------------------
\* The tests and pushes of the loop body.

\* if (distM <= enterThresh)
EntersOverlap_strict(d) == d < enterThresh

EntersOverlap_far(d) == d >= enterThresh

EntersOverlap(d) == d <= enterThresh

\* if (distM <= exitThresh)
StaysInOverlap_noBand(d) == d <= enterThresh

StaysInOverlap(d) == d <= exitThresh

\* current.push(coord)
PushCoord_front(cur, coord) == <<coord>> \o cur

PushCoord(cur, coord) == Append(cur, coord)

\* if (current.length > 1) overlappingSegments.push(current);   (in the loop)
PushOnExit_keepsLone(segs, cur) == IF Len(cur) > 0 THEN Append(segs, cur) ELSE segs

PushOnExit_never(segs, cur) == segs

PushOnExit_front(segs, cur) == IF Len(cur) > 1 THEN <<cur>> \o segs ELSE segs

PushOnExit(segs, cur) == IF Len(cur) > 1 THEN Append(segs, cur) ELSE segs

\* current = [];   (in the loop, on exit)
ResetCurrent_keeps(cur) == cur

ResetCurrent(cur) == <<>>

\* if (current.length > 1) overlappingSegments.push(current);   (after the loop)
PushAtEnd_never(segs, cur) == segs

PushAtEnd_keepsLone(segs, cur) == IF Len(cur) > 0 THEN Append(segs, cur) ELSE segs

PushAtEnd(segs, cur) == IF Len(cur) > 1 THEN Append(segs, cur) ELSE segs

-----------------------------------------------------------------------------
\* The turf calls, on one meridian.

Abs(x) == IF x < 0 THEN -x ELSE x

Sgn(x) == IF x < 0 THEN -1 ELSE IF x > 0 THEN 1 ELSE 0

Min2(a, b) == IF a <= b THEN a ELSE b

Max2(a, b) == IF a >= b THEN a ELSE b

\* The least element of a non-empty set of numbers.
MinOf(S) == CHOOSE m \in S : \A x \in S : m <= x

\* turf.distance
Distance(a, b) == Abs(a - b)

\* turf.length of a line string: the sum over its consecutive coordinates.
RECURSIVE LengthFrom(_, _)
LengthFrom(line, i) ==
  IF i >= Len(line) THEN 0
  ELSE Distance(line[i], line[i + 1]) + LengthFrom(line, i + 1)

LineLength(line) == LengthFrom(line, 1)

\* turf.along: walk the coordinates adding up lengths; past the end, the last
\* coordinate; on a coordinate, that coordinate; else back from the coordinate
\* that overshot.
RECURSIVE AlongFrom(_, _, _, _)
AlongFrom(line, d, i, travelled) ==
  IF d >= travelled /\ i = Len(line) THEN line[i]
  ELSE IF travelled >= d
       THEN IF travelled = d THEN line[i]
            ELSE line[i] - Sgn(line[i] - line[i - 1]) * (travelled - d)
       ELSE AlongFrom(line, d, i + 1, travelled + Distance(line[i], line[i + 1]))

Along(line, d) == AlongFrom(line, d, 1, 0)

\* Distance of pt to the segment from a to b.
DistanceToSegment(pt, a, b) ==
  IF Min2(a, b) <= pt /\ pt <= Max2(a, b) THEN 0
  ELSE Min2(Distance(pt, a), Distance(pt, b))

\* turf.pointToLineDistance: the least distance to a segment of the line.
PointToLineDistance(pt, line) ==
  MinOf({DistanceToSegment(pt, line[i], line[i + 1]) : i \in 1..(Len(line) - 1)})

\* turf.length of a multi line string: the sum over its lines.
RECURSIVE MultiLengthFrom(_, _)
MultiLengthFrom(lines, p) ==
  IF p > Len(lines) THEN 0
  ELSE LineLength(lines[p]) + MultiLengthFrom(lines, p + 1)

MultiLineLength_withGap(lines) ==
  MultiLengthFrom(lines, 1)
    + (IF Len(lines) < 2 THEN 0
       ELSE Distance(lines[1][Len(lines[1])], lines[2][1]))

MultiLineLength(lines) == MultiLengthFrom(lines, 1)

-----------------------------------------------------------------------------
\* processTrack and findAndDrawOverlap as functions of their arguments.

\* What the parser hands to processTrack: the points of the first track of the
\* file, its name ("" when the file gives none) and, in `shortfall`, by how
\* much the parser's own total (earth radius 6371000 m) falls short of turf's
\* (6371008.8 m) on a track of positive length.  The files of SpecCompare are
\* unnamed.
GpxFiles ==
  [points : SeqsOf(Coords, 0, MaxPoints) \cup Bends, shortfall : {0, 1},
   name : {""}]

\* tr.distance?.total ?? cumulativeDistance
GpxTotal(gpx) ==
  IF LineLength(gpx.points) = 0 THEN 0 ELSE LineLength(gpx.points) - gpx.shortfall

\* if (!tr || !tr.points?.length) throw
ProcessTrackThrows(gpx) == Len(gpx.points) = 0

\* tr.name || `Rota ${trackIndex + 1}`
TrackName(gpx, trackIndex) ==
  IF gpx.name = "" THEN [text |-> "Rota", n |-> trackIndex]
  ELSE [text |-> gpx.name, n |-> 0]

\* The object processTrack stores in tracksData[trackIndex].
StoredTrack(gpx, trackIndex) ==
  [name |-> TrackName(gpx, trackIndex),
   points |-> gpx.points,
   totalDistance |-> GpxTotal(gpx)]

\* turf.lineString throws on fewer than two positions.
LineStringThrows(points) == Len(points) < 2

\* len1 <= len2 ? ls1 : ls2
ProbeIsFirst_longer(len1, len2) == len1 >= len2

ProbeIsFirst(len1, len2) == len1 <= len2

\* for (let d = 0; d <= shortLenKm; d += stepKm) sampled.push(turf.along(...))
RECURSIVE ResampleFrom(_, _, _, _)
ResampleFrom(line, shortLen, d, acc) ==
  IF d <= shortLen
  THEN ResampleFrom(line, shortLen, d + RESAMPLE_STEP_METERS, Append(acc, Along(line, d)))
  ELSE acc

SteppedSamples_skipFirst(line) ==
  ResampleFrom(line, LineLength(line), RESAMPLE_STEP_METERS, <<>>)

SteppedSamples(line) == ResampleFrom(line, LineLength(line), 0, <<>>)

\* if (!sampled.length || last sample differs from lastCoord) sampled.push(lastCoord)
AppendLastCoord_never(smp, line) == smp

AppendLastCoord(smp, line) ==
  IF smp = <<>> \/ smp[Len(smp)] # line[Len(line)]
  THEN Append(smp, line[Len(line)])
  ELSE smp

Resample(line) == AppendLastCoord(SteppedSamples(line), line)

\* One iteration of the for-of loop, on sample i at distance d.
ClassifyStep(st, i, d) ==
  IF ~st.inside
  THEN IF EntersOverlap(d)
       THEN [st EXCEPT !.inside = TRUE, !.current = PushCoord(st.current, i)]
       ELSE st
  ELSE IF StaysInOverlap(d)
       THEN [st EXCEPT !.current = PushCoord(st.current, i)]
       ELSE [inside |-> FALSE,
             current |-> ResetCurrent(st.current),
             segments |-> PushOnExit(st.segments, st.current)]

\* The loop from sample i on, and the push after it.
RECURSIVE ClassifyFrom(_, _, _)
ClassifyFrom(dists, i, st) ==
  IF i > Len(dists)
  THEN [st EXCEPT !.segments = PushAtEnd(st.segments, st.current)]
  ELSE ClassifyFrom(dists, i + 1, ClassifyStep(st, i, dists[i]))

\* const overlappingSegments = []; let current = []; let inside = false;
FreshLocals_staleInside ==
  [inside |-> inside, current |-> <<>>, segments |-> <<>>]

FreshLocals == [inside |-> FALSE, current |-> <<>>, segments |-> <<>>]

Classify(dists) == ClassifyFrom(dists, 1, FreshLocals)

\* The coordinates a segment holds.
CoordsOf(seg, smp) == [i \in 1..Len(seg) |-> smp[seg[i]]]

\* overlappingSegments as the arrays of coordinates the code keeps.
SegmentLines(segs, smp) == [p \in 1..Len(segs) |-> CoordsOf(segs[p], smp)]

\* Number.prototype.toFixed(2) of a length in km: hundredths of a km, rounded,
\* with the sign of the number.
ToFixed2(m) == [neg |-> m < 0, centi |-> (Abs(m) + 5) \div 10]

\* Math.max(0, track.totalDistance - overlapKm)
UniqueDistance_signed(total, overlap) == total - overlap

UniqueDistance(total, overlap) == Max2(0, total - overlap)

\* The stats section as displayOverlapStats leaves it: the overlap, the
\* difference of track1 and the difference of track2, the last two labelled
\* with the names of track1 and track2.
OverlapStats_shorterFirst(overlap, track1, track2) ==
  LET swap == track2.totalDistance < track1.totalDistance
      first == IF swap THEN track2 ELSE track1
      second == IF swap THEN track1 ELSE track2
  IN [display |-> "block",
      items |-> << ToFixed2(overlap),
                   ToFixed2(UniqueDistance(first.totalDistance, overlap)),
                   ToFixed2(UniqueDistance(second.totalDistance, overlap)) >>,
      labels |-> <<first.name, second.name>>]

OverlapStats(overlap, track1, track2) ==
  [display |-> "block",
   items |-> << ToFixed2(overlap),
                ToFixed2(UniqueDistance(track1.totalDistance, overlap)),
                ToFixed2(UniqueDistance(track2.totalDistance, overlap)) >>,
   labels |-> <<track1.name, track2.name>>]

\* track1 and track2 as findAndDrawOverlap leaves them: it reads their points,
\* names and total distances and assigns to none of them.
TracksAfter_resampled(track1, track2, smp) ==
  << [track1 EXCEPT !.points = smp], track2 >>

TracksAfter(track1, track2, smp) == <<track1, track2>>

\* findAndDrawOverlap from its two line strings to the length of the multi
\* line string: the part that reads nothing but the points of the tracks.
FindSegments(ls1, ls2) ==
  LET len1 == LineLength(ls1)
      len2 == LineLength(ls2)
      short == IF ProbeIsFirst(len1, len2) THEN ls1 ELSE ls2
      long == IF ProbeIsFirst(len1, len2) THEN ls2 ELSE ls1
      smp == Resample(short)
      dists == [i \in 1..Len(smp) |-> PointToLineDistance(smp[i], long)]
      st == Classify(dists)
      lines == SegmentLines(st.segments, smp)
  IN [shortLine |-> short, longLine |-> long, sampled |-> smp, distM |-> dists,
      inside |-> st.inside, current |-> st.current, segments |-> st.segments,
      lines |-> lines, overlapKm |-> MultiLineLength(lines)]

\* What findAndDrawOverlap(track1, track2) leaves, given g, what it found.
OverlapResult(track1, track2, g) ==
  LET drawn == g.segments # <<>>
  IN [tracks |-> TracksAfter(track1, track2, g.sampled),
      shortLine |-> g.shortLine, longLine |-> g.longLine,
      sampled |-> g.sampled, distM |-> g.distM,
      inside |-> g.inside, current |-> g.current, segments |-> g.segments,
      overlapLayer |-> IF drawn THEN <<g.lines>> ELSE NoLayer,
      statsSection |-> IF drawn THEN OverlapStats(g.overlapKm, track1, track2)
                       ELSE NoStats]

\* findAndDrawOverlap(track1, track2), for tracks turf.lineString accepts.
FindOverlap(track1, track2) ==
  OverlapResult(track1, track2, FindSegments(track1.points, track2.points))

-----------------------------------------------------------------------------
\* No haversine function has been called.
NoDistance == [by |-> "none", nan |-> FALSE, meters |-> 0]

\* The page around the two rows is left out.
UiLeftOut ==
  /\ rowCount = 0
  /\ pending = {}
  /\ mapLayers = <<>>
  /\ mapOverlap = <<>>
  /\ chartDatasets = <<>>
  /\ rowFile = <<>>

\* The earlier app is left out.
PickersLeftOut ==
  /\ tracks = <<>>
  /\ wrappers = <<>>
  /\ reading = {}

\* The haversine functions are left out.
HaversineLeftOut ==
  /\ havArgs = [a |-> <<0, 0>>, b |-> <<0, 0>>, err |-> 0]
  /\ havResult = NoDistance

\* The rows and the outputs before any file is picked.
NothingLoaded ==
  /\ tracksData = [i \in Rows |-> NoTrack]
  /\ picked = {}
  /\ alerted = FALSE
  /\ shortLine = <<>>
  /\ longLine = <<>>
  /\ sampled = <<>>
  /\ overlapLayer = NoLayer
  /\ statsSection = NoStats
  /\ UiLeftOut
  /\ PickersLeftOut
  /\ HaversineLeftOut

\* The classifier at line 365, about to read the first of any stream of
\* distances; the tracks the stream comes from are left out.
Init ==
  /\ distM \in SampleStreams
  /\ k = 0
  /\ inside = FALSE
  /\ current = <<>>
  /\ overlappingSegments = <<>>
  /\ pc = "loop"
  /\ NothingLoaded

\* The sample the next iteration binds to `coord`.
HasNext == pc = "loop" /\ k < Len(distM)

\* !inside, distM <= enterThresh: inside = true; current.push(coord)
EnterSegment ==
  /\ HasNext
  /\ ~inside
  /\ EntersOverlap(distM[k + 1])
  /\ inside' = TRUE
  /\ current' = PushCoord(current, k + 1)
  /\ k' = k + 1
  /\ UNCHANGED <<distM, overlappingSegments, pc>>
  /\ UNCHANGED <<compareVars, uiVars, pickerVars, havVars>>

\* !inside, distM > enterThresh: nothing happens
StayOutside ==
  /\ HasNext
  /\ ~inside
  /\ ~EntersOverlap(distM[k + 1])
  /\ k' = k + 1
  /\ UNCHANGED <<distM, inside, current, overlappingSegments, pc>>
  /\ UNCHANGED <<compareVars, uiVars, pickerVars, havVars>>

\* inside, distM <= exitThresh: current.push(coord)
HoldSegment ==
  /\ HasNext
  /\ inside
  /\ StaysInOverlap(distM[k + 1])
  /\ current' = PushCoord(current, k + 1)
  /\ k' = k + 1
  /\ UNCHANGED <<distM, inside, overlappingSegments, pc>>
  /\ UNCHANGED <<compareVars, uiVars, pickerVars, havVars>>

\* inside, distM > exitThresh: push current if longer than 1; reset; leave
ExitSegment ==
  /\ HasNext
  /\ inside
  /\ ~StaysInOverlap(distM[k + 1])
  /\ overlappingSegments' = PushOnExit(overlappingSegments, current)
  /\ current' = ResetCurrent(current)
  /\ inside' = FALSE
  /\ k' = k + 1
  /\ UNCHANGED <<distM, pc>>
  /\ UNCHANGED <<compareVars, uiVars, pickerVars, havVars>>

\* The loop is exhausted: if (current.length > 1) overlappingSegments.push(current)
EndOfStream ==
  /\ pc = "loop"
  /\ k = Len(distM)
  /\ overlappingSegments' = PushAtEnd(overlappingSegments, current)
  /\ pc' = "done"
  /\ UNCHANGED <<distM, k, inside, current>>
  /\ UNCHANGED <<compareVars, uiVars, pickerVars, havVars>>

Next ==
  \/ EnterSegment
  \/ StayOutside
  \/ HoldSegment
  \/ ExitSegment
  \/ EndOfStream

Spec == Init /\ [][Next]_vars

-----------------------------------------------------------------------------
\* Whole comparisons.

InitCompare ==
  /\ distM = <<>>
  /\ k = 0
  /\ inside = FALSE
  /\ current = <<>>
  /\ overlappingSegments = <<>>
  /\ pc = "idle"
  /\ NothingLoaded

\* The rows that hold a track, in ascending order.
ActiveSlots(td) ==
  SelectSeq([i \in 1..Len(td) |-> i], LAMBDA i : td[i] # NoTrack)

\* tracksData.filter(Boolean)
Active(td) == [n \in 1..Len(ActiveSlots(td)) |-> td[ActiveSlots(td)[n]]]

\* checkForOverlap reaches findAndDrawOverlap.
ComparesTwo_atLeast(td) == Len(Active(td)) >= 2

ComparesTwo(td) == Len(Active(td)) = 2

\* findAndDrawOverlap throws at turf.lineString.
FindOverlapThrows(track1, track2) ==
  LineStringThrows(track1.points) \/ LineStringThrows(track2.points)

\* handleFileSelect(event, i) from the file's text on, when processTrack throws:
\* nothing is stored and checkForOverlap is not reached.
SelectEmptyFile(i, gpx) ==
  /\ i \notin picked
  /\ ProcessTrackThrows(gpx)
  /\ picked' = picked \cup {i}
  /\ alerted' = TRUE
  /\ UNCHANGED <<tracksData, shortLine, longLine, sampled,
                 overlapLayer, statsSection>>
  /\ UNCHANGED <<loopVars, uiVars, pickerVars, havVars>>

\* handleFileSelect(event, i): the track is stored and checkForOverlap finds
\* fewer than two tracks; it clears the stats and the overlap layer.
SelectFirstFile(i, gpx) ==
  /\ i \notin picked
  /\ ~ProcessTrackThrows(gpx)
  /\ LET td == [tracksData EXCEPT ![i] = StoredTrack(gpx, i)]
     IN /\ ~ComparesTwo(td)
        /\ tracksData' = td
  /\ picked' = picked \cup {i}
  /\ alerted' = FALSE
  /\ overlapLayer' = NoLayer
  /\ statsSection' = NoStats
  /\ UNCHANGED <<shortLine, longLine, sampled>>
  /\ UNCHANGED <<loopVars, uiVars, pickerVars, havVars>>

\* handleFileSelect(event, i): the track is stored, checkForOverlap clears the
\* stats and the overlap layer and calls findAndDrawOverlap, which throws.
SelectAndFail(i, gpx) ==
  /\ i \notin picked
  /\ ~ProcessTrackThrows(gpx)
  /\ LET td == [tracksData EXCEPT ![i] = StoredTrack(gpx, i)]
     IN /\ ComparesTwo(td)
        /\ FindOverlapThrows(Active(td)[1], Active(td)[2])
        /\ tracksData' = td
  /\ picked' = picked \cup {i}
  /\ alerted' = TRUE
  /\ overlapLayer' = NoLayer
  /\ statsSection' = NoStats
  /\ UNCHANGED <<shortLine, longLine, sampled>>
  /\ UNCHANGED <<loopVars, uiVars, pickerVars, havVars>>

\* handleFileSelect(event, i): the track is stored, checkForOverlap clears the
\* stats and the overlap layer and findAndDrawOverlap runs to its end.
SelectAndCompare(i, gpx) ==
  /\ i \notin picked
  /\ ~ProcessTrackThrows(gpx)
  /\ LET td == [tracksData EXCEPT ![i] = StoredTrack(gpx, i)]
     IN /\ ComparesTwo(td)
        /\ ~FindOverlapThrows(Active(td)[1], Active(td)[2])
        /\ tracksData' = td
        /\ LET r == FindOverlap(Active(td)[1], Active(td)[2])
           IN /\ shortLine' = r.shortLine
              /\ longLine' = r.longLine
              /\ sampled' = r.sampled
              /\ distM' = r.distM
              /\ k' = Len(r.distM)
              /\ inside' = r.inside
              /\ current' = r.current
              /\ overlappingSegments' = r.segments
              /\ overlapLayer' = r.overlapLayer
              /\ statsSection' = r.statsSection
  /\ pc' = "done"
  /\ picked' = picked \cup {i}
  /\ alerted' = FALSE
  /\ UNCHANGED <<uiVars, pickerVars, havVars>>

NextCompare ==
  \E i \in Rows, gpx \in GpxFiles :
     \/ SelectEmptyFile(i, gpx)
     \/ SelectFirstFile(i, gpx)
     \/ SelectAndFail(i, gpx)
     \/ SelectAndCompare(i, gpx)

SpecCompare == InitCompare /\ [][NextCompare]_vars

\* Both rows hold a track turf accepts: the outputs are those of
\* findAndDrawOverlap(tracksData[1], tracksData[2]).
Compared ==
  /\ tracksData[1] # NoTrack /\ tracksData[2] # NoTrack
  /\ ~FindOverlapThrows(tracksData[1], tracksData[2])

\* The stepwise classifier and the function agree at the end of every stream.
ClassifyAgrees ==
  pc = "done" =>
     Classify(distM) =
       [inside |-> inside, current |-> current, segments |-> overlappingSegments]

-----------------------------------------------------------------------------
\* The page: rows are added, files picked, reads finish, tracks are removed.

\* A track that winds over the far end of Shuttle: its first sample lies in
\* the hysteresis band, then come a run of three near samples, a gap, one
\* lone near sample, a gap and a run of three near samples up to its end.
Winding ==
  [points |-> <<57, 60, 42, 75, 52, 70, 35>>, shortfall |-> 1, name |-> "Winding",
   ele |-> TRUE]

\* An unnamed track that runs to and fro between 0 and 35, longer than Winding.
Shuttle ==
  [points |-> <<0, 35, 0, 35, 0>>, shortfall |-> 0, name |-> "", ele |-> FALSE]

\* A file whose track has no points.
Blank == [points |-> <<>>, shortfall |-> 0, name |-> "", ele |-> FALSE]

\* The files picked on the page.
UiFiles == {Winding, Shuttle, Blank}

\* The line strings of the tracks these files give.
UiLines == {f.points : f \in {Winding, Shuttle}}

\* What findAndDrawOverlap finds for each pair of them, computed once and
\* kept as an explicit function.
UiSegments ==
  [pair \in UiLines \X UiLines |-> FindSegments(pair[1], pair[2])] @@ <<>>

\* findAndDrawOverlap(track1, track2) on the page.
Overlap(track1, track2) ==
  LET pair == <<track1.points, track2.points>>
  IN OverlapResult(track1, track2,
                   IF pair \in DOMAIN UiSegments THEN UiSegments[pair]
                   ELSE FindSegments(pair[1], pair[2]))

\* map.removeLayer(overlapLayer), on the overlap polylines of the map.
RemoveOverlapLayer_keeps(onMap, layer) == onMap

RemoveOverlapLayer(onMap, layer) ==
  IF layer = NoLayer THEN onMap
  ELSE SelectSeq(onMap, LAMBDA l : l # layer[1])

\* clearOverlapStats(): if (statsSection) it is hidden and its list emptied.
ClearOverlapStats(section) ==
  IF section = MissingStats THEN section ELSE NoStats

\* displayOverlapStats: if (!statsSection || !contentUl) return; else the
\* list is written and the section shown.  shown is the section as
\* findAndDrawOverlap leaves one that exists.
DisplayOverlapStats(section, shown) ==
  IF section = MissingStats THEN section ELSE shown

\* checkForOverlap(), with tracksData = td: what it leaves in every variable
\* it or findAndDrawOverlap can write, and whether findAndDrawOverlap threw.
\* The locals of findAndDrawOverlap are those of its run in this call, or as
\* before any run when it did not run to its end.
CheckForOverlap(td) ==
  LET cleared == RemoveOverlapLayer(mapOverlap, overlapLayer)
      act == Active(td)
      slots == ActiveSlots(td)
      notRun == [threw |-> FALSE, tracksData |-> td,
                 shortLine |-> <<>>, longLine |-> <<>>,
                 sampled |-> <<>>, distM |-> <<>>, k |-> 0,
                 inside |-> FALSE, current |-> <<>>,
                 overlappingSegments |-> <<>>, pc |-> "idle",
                 overlapLayer |-> NoLayer,
                 statsSection |-> ClearOverlapStats(statsSection),
                 mapOverlap |-> cleared]
  IN IF ~ComparesTwo(td) THEN notRun
     ELSE IF FindOverlapThrows(act[1], act[2]) THEN [notRun EXCEPT !.threw = TRUE]
     ELSE LET r == Overlap(act[1], act[2])
          IN [threw |-> FALSE,
              tracksData |-> [td EXCEPT ![slots[1]] = r.tracks[1],
                                        ![slots[2]] = r.tracks[2]],
              shortLine |-> r.shortLine, longLine |-> r.longLine,
              sampled |-> r.sampled, distM |-> r.distM, k |-> Len(r.distM),
              inside |-> r.inside, current |-> r.current,
              overlappingSegments |-> r.segments, pc |-> "done",
              overlapLayer |-> r.overlapLayer,
              statsSection |->
                DisplayOverlapStats(ClearOverlapStats(statsSection), r.statsSection),
              mapOverlap |-> cleared \o r.overlapLayer]

\* The variables as checkForOverlap left them.
Leaves(r) ==
  /\ tracksData' = r.tracksData
  /\ shortLine' = r.shortLine
  /\ longLine' = r.longLine
  /\ sampled' = r.sampled
  /\ distM' = r.distM
  /\ k' = r.k
  /\ inside' = r.inside
  /\ current' = r.current
  /\ overlappingSegments' = r.overlappingSegments
  /\ pc' = r.pc
  /\ overlapLayer' = r.overlapLayer
  /\ statsSection' = r.statsSection
  /\ mapOverlap' = r.mapOverlap

\* The page once the script has run: initMap, initChart, createStatsSection
\* and one call of addFileInput.  The file names the rows show are left out.
InitUI ==
  /\ distM = <<>>
  /\ k = 0
  /\ inside = FALSE
  /\ current = <<>>
  /\ overlappingSegments = <<>>
  /\ pc = "idle"
  /\ tracksData = [i \in Slots |-> NoTrack]
  /\ picked = {}
  /\ alerted = FALSE
  /\ shortLine = <<>>
  /\ longLine = <<>>
  /\ sampled = <<>>
  /\ overlapLayer = NoLayer
  /\ statsSection = NoStats
  /\ rowCount = 1
  /\ pending = {}
  /\ mapLayers = [i \in Slots |-> NoLayer]
  /\ mapOverlap = <<>>
  /\ chartDatasets = [i \in Slots |-> NoLayer]
  /\ rowFile = <<>>
  /\ PickersLeftOut
  /\ HaversineLeftOut

\* A click on addBtn, which is disabled once there are MAX_TRACKS rows:
\* addFileInput appends a row.
AddFileInput ==
  /\ rowCount < MAX_TRACKS
  /\ rowCount' = rowCount + 1
  /\ UNCHANGED <<loopVars, compareVars, pending, mapLayers, mapOverlap>>
  /\ UNCHANGED <<chartDatasets, rowFile, pickerVars, havVars>>

\* handleFileSelect(event, i) up to its await: file f is picked in the input
\* of row i, addRemoveButton hides the input and shows the name and the
\* button, and file.text() is awaited.
SelectFile(i, f) ==
  /\ i \in 1..rowCount
  /\ i \notin picked
  /\ Cardinality(pending) < MaxPending
  /\ <<i, f>> \notin pending
  /\ picked' = picked \cup {i}
  /\ pending' = pending \cup {<<i, f>>}
  /\ rowFile' = WithName(rowFile, i, f)
  /\ UNCHANGED <<tracksData, alerted, shortLine, longLine, sampled,
                 overlapLayer, statsSection>>
  /\ UNCHANGED <<loopVars, rowCount, mapLayers, mapOverlap>>
  /\ UNCHANGED <<chartDatasets, pickerVars, havVars>>

\* handleFileSelect(event, i) from its await on, when processTrack throws:
\* the catch branch alerts and nothing else is written.
ReadRejected(i, f) ==
  /\ <<i, f>> \in pending
  /\ ProcessTrackThrows(f)
  /\ pending' = pending \ {<<i, f>>}
  /\ alerted' = TRUE
  /\ UNCHANGED <<tracksData, picked, shortLine, longLine, sampled,
                 overlapLayer, statsSection>>
  /\ UNCHANGED <<loopVars, rowCount, mapLayers, mapOverlap>>
  /\ UNCHANGED <<chartDatasets, rowFile, pickerVars, havVars>>

\* drawTrackOnChart: the dataset of a track with elevations, labelled with
\* its name and total distance; none for a track without.
ChartDataset(f, i) ==
  IF f.ele
  THEN <<[label |-> TrackName(f, i), km |-> ToFixed2(GpxTotal(f))]>>
  ELSE NoLayer

\* handleFileSelect(event, i) from its await on: processTrack stores the
\* track, drawTrackOnMap and drawTrackOnChart draw it, checkForOverlap runs;
\* the catch branch alerts if findAndDrawOverlap threw.
ReadStored(i, f) ==
  /\ <<i, f>> \in pending
  /\ ~ProcessTrackThrows(f)
  /\ pending' = pending \ {<<i, f>>}
  /\ mapLayers' = [mapLayers EXCEPT ![i] = <<f.points>>]
  /\ chartDatasets' = [chartDatasets EXCEPT ![i] = ChartDataset(f, i)]
  /\ LET r == CheckForOverlap([tracksData EXCEPT ![i] = StoredTrack(f, i)])
     IN /\ Leaves(r)
        /\ alerted' = r.threw
  /\ UNCHANGED <<picked, rowCount, rowFile>>
  /\ UNCHANGED <<pickerVars, havVars>>

\* removeTrack(i, container), a click on the button of row i: the track,
\* its polyline and its dataset go, the row gets a fresh input,
\* checkForOverlap runs.
RemoveTrack_noRecheck(i) ==
  /\ i \in picked
  /\ picked' = picked \ {i}
  /\ rowFile' = WithName(rowFile, i, NoFile)
  /\ tracksData' = [tracksData EXCEPT ![i] = NoTrack]
  /\ mapLayers' = [mapLayers EXCEPT ![i] = NoLayer]
  /\ chartDatasets' = [chartDatasets EXCEPT ![i] = NoLayer]
  /\ UNCHANGED <<shortLine, longLine, sampled, overlapLayer, statsSection>>
  /\ UNCHANGED <<loopVars, alerted, rowCount, pending, mapOverlap>>
  /\ UNCHANGED <<pickerVars, havVars>>

RemoveTrack_clearsMap(i) ==
  /\ i \in picked
  /\ picked' = picked \ {i}
  /\ rowFile' = WithName(rowFile, i, NoFile)
  /\ mapLayers' = [j \in Slots |-> NoLayer]
  /\ chartDatasets' = [chartDatasets EXCEPT ![i] = NoLayer]
  /\ Leaves(CheckForOverlap([tracksData EXCEPT ![i] = NoTrack]))
  /\ UNCHANGED <<alerted, rowCount, pending>>
  /\ UNCHANGED <<pickerVars, havVars>>

RemoveTrack(i) ==
  /\ i \in picked
  /\ picked' = picked \ {i}
  /\ rowFile' = WithName(rowFile, i, NoFile)
  /\ mapLayers' = [mapLayers EXCEPT ![i] = NoLayer]
  /\ chartDatasets' = [chartDatasets EXCEPT ![i] = NoLayer]
  /\ Leaves(CheckForOverlap([tracksData EXCEPT ![i] = NoTrack]))
  /\ UNCHANGED <<alerted, rowCount, pending>>
  /\ UNCHANGED <<pickerVars, havVars>>

NextUI ==
  \/ AddFileInput
  \/ \E i \in Slots : RemoveTrack(i)
  \/ \E i \in Slots, f \in UiFiles :
        \/ SelectFile(i, f)
        \/ ReadRejected(i, f)
        \/ ReadStored(i, f)

SpecUI == InitUI /\ [][NextUI]_vars

\* The page of src/unnamed/part_002:170-199 once the script has run: it has
\* the inputs, the button, the map and the chart, and no .sidebar-content, so
\* createStatsSection returns at its first test and there is no stats section.
\* The file names the rows show are left out.
InitPage ==
  /\ distM = <<>>
  /\ k = 0
  /\ inside = FALSE
  /\ current = <<>>
  /\ overlappingSegments = <<>>
  /\ pc = "idle"
  /\ tracksData = [i \in Slots |-> NoTrack]
  /\ picked = {}
  /\ alerted = FALSE
  /\ shortLine = <<>>
  /\ longLine = <<>>
  /\ sampled = <<>>
  /\ overlapLayer = NoLayer
  /\ statsSection = MissingStats
  /\ rowCount = 1
  /\ pending = {}
  /\ mapLayers = [i \in Slots |-> NoLayer]
  /\ mapOverlap = <<>>
  /\ chartDatasets = [i \in Slots |-> NoLayer]
  /\ rowFile = <<>>
  /\ PickersLeftOut
  /\ HaversineLeftOut

SpecPage == InitPage /\ [][NextUI]_vars

\* The page after one click on addBtn: two rows, and the file name each row
\* shows is kept.
InitRows ==
  /\ distM = <<>>
  /\ k = 0
  /\ inside = FALSE
  /\ current = <<>>
  /\ overlappingSegments = <<>>
  /\ pc = "idle"
  /\ tracksData = [i \in Slots |-> NoTrack]
  /\ picked = {}
  /\ alerted = FALSE
  /\ shortLine = <<>>
  /\ longLine = <<>>
  /\ sampled = <<>>
  /\ overlapLayer = NoLayer
  /\ statsSection = NoStats
  /\ rowCount = 2
  /\ pending = {}
  /\ mapLayers = [i \in Slots |-> NoLayer]
  /\ mapOverlap = <<>>
  /\ chartDatasets = [i \in Slots |-> NoLayer]
  /\ rowFile = [i \in Slots |-> NoFile]
  /\ PickersLeftOut
  /\ HaversineLeftOut

\* The handlers of the two rows; addBtn is not clicked again.
NextRows ==
  \/ \E i \in Rows : RemoveTrack(i)
  \/ \E i \in Rows, f \in UiFiles :
        \/ SelectFile(i, f)
        \/ ReadRejected(i, f)
        \/ ReadStored(i, f)

SpecRows == InitRows /\ [][NextRows]_vars

-----------------------------------------------------------------------------
\* The file pickers of the earlier app (src/unnamed/part_001:1-147).  An idx
\* is the 0-based index the code uses; tracks[idx] is the entry idx + 1 here.

MAX_FILES == 4

\* Most picker rows explored.
MaxWrappers == 5

\* tracks[idx] = v: an assignment past the end leaves holes before idx.
SetAt(arr, idx, v) ==
  [n \in 1..Max2(Len(arr), idx + 1) |->
     IF n = idx + 1 THEN v
     ELSE IF n <= Len(arr) THEN arr[n]
     ELSE "hole"]

\* The sequence without its w-th element.
RemoveAt(seq, w) == SubSeq(seq, 1, w - 1) \o SubSeq(seq, w + 1, Len(seq))

\* The earlier page once its script has run: addBtn.click() adds one picker.
InitPickers ==
  /\ distM = <<>>
  /\ k = 0
  /\ inside = FALSE
  /\ current = <<>>
  /\ overlappingSegments = <<>>
  /\ pc = "idle"
  /\ tracksData = [i \in Rows |-> NoTrack]
  /\ picked = {}
  /\ alerted = FALSE
  /\ shortLine = <<>>
  /\ longLine = <<>>
  /\ sampled = <<>>
  /\ overlapLayer = NoLayer
  /\ statsSection = NoStats
  /\ UiLeftOut
  /\ tracks = <<>>
  /\ wrappers = <<0>>
  /\ reading = {}
  /\ HaversineLeftOut

\* addBtn.onclick when tracks.length < MAX_FILES: a picker row is appended
\* whose handlers keep idx = tracks.length.
AddPicker ==
  /\ Len(tracks) < MAX_FILES
  /\ Len(wrappers) < MaxWrappers
  /\ wrappers' = Append(wrappers, Len(tracks))
  /\ alerted' = FALSE
  /\ UNCHANGED <<tracks, reading>>
  /\ UNCHANGED <<loopVars, tracksData, picked, shortLine, longLine, sampled,
                 overlapLayer, statsSection, uiVars, havVars>>

\* addBtn.onclick when tracks.length >= MAX_FILES: alert('Limit reached.')
AddRefused ==
  /\ Len(tracks) >= MAX_FILES
  /\ alerted' = TRUE
  /\ UNCHANGED pickerVars
  /\ UNCHANGED <<loopVars, tracksData, picked, shortLine, longLine, sampled,
                 overlapLayer, statsSection, uiVars, havVars>>

\* input.onchange of the w-th row: loadFile(file, idx) starts a FileReader.
LoadFile(w) ==
  /\ w \in 1..Len(wrappers)
  /\ wrappers[w] \notin reading
  /\ reading' = reading \cup {wrappers[w]}
  /\ UNCHANGED <<tracks, wrappers>>
  /\ UNCHANGED <<loopVars, compareVars, uiVars, havVars>>

\* reader.onload for a file without tracks: alert('No track!')
OnLoadNoTrack(idx) ==
  /\ idx \in reading
  /\ reading' = reading \ {idx}
  /\ alerted' = TRUE
  /\ UNCHANGED <<tracks, wrappers>>
  /\ UNCHANGED <<loopVars, tracksData, picked, shortLine, longLine, sampled,
                 overlapLayer, statsSection, uiVars, havVars>>

\* reader.onload: tracks[idx] = {file, layer, ...}; refresh()
OnLoad(idx) ==
  /\ idx \in reading
  /\ reading' = reading \ {idx}
  /\ tracks' = SetAt(tracks, idx, "loaded")
  /\ alerted' = FALSE
  /\ UNCHANGED wrappers
  /\ UNCHANGED <<loopVars, tracksData, picked, shortLine, longLine, sampled,
                 overlapLayer, statsSection, uiVars, havVars>>

\* removeBtn.onclick of the w-th row: clearTrack(idx), which sets a loaded
\* entry to null, and wrapper.remove().
RemovePicker(w) ==
  /\ w \in 1..Len(wrappers)
  /\ LET idx == wrappers[w]
     IN tracks' = IF idx + 1 <= Len(tracks) /\ tracks[idx + 1] = "loaded"
                  THEN SetAt(tracks, idx, "cleared")
                  ELSE tracks
  /\ wrappers' = RemoveAt(wrappers, w)
  /\ UNCHANGED reading
  /\ UNCHANGED <<loopVars, compareVars, uiVars, havVars>>

NextPickers ==
  \/ AddPicker
  \/ AddRefused
  \/ \E w \in 1..MaxWrappers : LoadFile(w) \/ RemovePicker(w)
  \/ \E idx \in 0..(MAX_FILES - 1) : OnLoadNoTrack(idx) \/ OnLoad(idx)

SpecPickers == InitPickers /\ [][NextPickers]_vars

-----------------------------------------------------------------------------
\* The haversine functions: dist (src/unnamed/part_001:43-47) and the fallback
\* of safeDistMeters (src/unnamed/part_000:464-472).  A point is <<lat, lon>>
\* in degrees on a lattice where the haversine sum is 0, 1/2 or 1, and stands
\* for the coordinates within a few meters of it; the double the code computes
\* for such coordinates is kept as the exact sum at the lattice point and its
\* distance from it, in units of 2^-52, the spacing of the doubles just above 1.

\* Largest distance of the computed sum from the exact one: 1.0000000000000004
\* is computed for a = (-64.5707602, -171.5503375), b = (64.5707603, 8.4496625),
\* a centimeter from antipodal.
MaxUlps == 2

HavPoints == {-90, 0, 90} \X {-180, -90, 0, 90, 180}

\* sin(toRad(deg) / 2) ** 2 in halves, for deg a multiple of 90.
SinSqHalf(deg) ==
  LET m == (Abs(deg) \div 90) % 4
  IN IF m = 0 THEN 0 ELSE IF m = 2 THEN 2 ELSE 1

\* Math.cos(toRad(lat)), for lat in {-90, 0, 90}.
CosDeg(lat) == IF lat = 0 THEN 1 ELSE 0

\* The exact sum, in halves: sin^2(dLat/2) + cos(lat1) cos(lat2) sin^2(dLon/2).
HavHalves(a, b) ==
  SinSqHalf(b[1] - a[1]) + CosDeg(a[1]) * CosDeg(b[1]) * SinSqHalf(b[2] - a[2])

\* The calls explored: every pair of points with every rounding of the sum.
\* The sum of identical points is exactly 0, and no sum is negative.
HavCalls ==
  {c \in [a : HavPoints, b : HavPoints, err : (-MaxUlps)..MaxUlps] :
     /\ (c.a = c.b => c.err = 0)
     /\ (HavHalves(c.a, c.b) = 0 => c.err >= 0)}

\* Math.sqrt of the computed sum: the root of the exact value, and whether the
\* double is above 1.  The root of 1 + 2^-52 rounds to 1, that of 1 + 2^-51
\* to 1 + 2^-52.
Sqrt(c) ==
  [of |-> HavHalves(c.a, c.b),
   above1 |-> HavHalves(c.a, c.b) = 2 /\ c.err >= 2]

\* Math.min(1, x)
MinOne(x) == [x EXCEPT !.above1 = FALSE]

\* 2 * R * Math.asin(x) in whole meters, R = 6371000: asin(x) is NaN above 1,
\* else 0, pi/4 or pi/2.
TwoRAsin(x) ==
  IF x.above1 THEN [nan |-> TRUE, meters |-> 0]
  ELSE [nan |-> FALSE, meters |-> x.of * 10007543]

\* dist(a, b) of part_001: 2*R*Math.asin(Math.sqrt(...))
DistOf(c) == TwoRAsin(Sqrt(c))

\* safeDistMeters without a parser: 2 * R * Math.asin(Math.min(1, Math.sqrt(s)))
SafeDistMetersOf(c) == TwoRAsin(MinOne(Sqrt(c)))

InitHaversine ==
  /\ distM = <<>>
  /\ k = 0
  /\ inside = FALSE
  /\ current = <<>>
  /\ overlappingSegments = <<>>
  /\ pc = "idle"
  /\ tracksData = [i \in Rows |-> NoTrack]
  /\ picked = {}
  /\ alerted = FALSE
  /\ shortLine = <<>>
  /\ longLine = <<>>
  /\ sampled = <<>>
  /\ overlapLayer = NoLayer
  /\ statsSection = NoStats
  /\ UiLeftOut
  /\ PickersLeftOut
  /\ havArgs \in HavCalls
  /\ havResult = NoDistance

\* A call of dist(a, b).
Dist ==
  /\ havResult.by = "none"
  /\ havResult' = [by |-> "dist", nan |-> DistOf(havArgs).nan,
                   meters |-> DistOf(havArgs).meters]
  /\ UNCHANGED havArgs
  /\ UNCHANGED <<loopVars, compareVars, uiVars, pickerVars>>

\* A call of safeDistMeters(undefined, a, b).
SafeDistMeters ==
  /\ havResult.by = "none"
  /\ havResult' = [by |-> "safeDistMeters", nan |-> SafeDistMetersOf(havArgs).nan,
                   meters |-> SafeDistMetersOf(havArgs).meters]
  /\ UNCHANGED havArgs
  /\ UNCHANGED <<loopVars, compareVars, uiVars, pickerVars>>

NextHaversine == Dist \/ SafeDistMeters

SpecHaversine == InitHaversine /\ [][NextHaversine]_vars

-----------------------------------------------------------------------------
\* The two loops of findAndDrawOverlap, one iteration a step
\* (src/app.js:344-384).

\* The line strings of the second track: two points each.
RunRefs == SeqsOf(Coords, 2, 2)

\* The line strings of the first track.
RunLines == SeqsOf(Coords, 2, MaxPoints) \cup Bends

\* let d of the resampling loop: it starts at 0 and grows by the step with
\* every sample pushed.
LoopD_halfStep == (RESAMPLE_STEP_METERS \div 2) * Len(sampled)

LoopD == RESAMPLE_STEP_METERS * Len(sampled)

\* findAndDrawOverlap at line 347: shortLine and longLine are chosen and
\* sampled is empty.
InitRun ==
  /\ \E ls1 \in RunLines, ls2 \in RunRefs :
        LET first == ProbeIsFirst(LineLength(ls1), LineLength(ls2))
        IN /\ shortLine = (IF first THEN ls1 ELSE ls2)
           /\ longLine = (IF first THEN ls2 ELSE ls1)
  /\ sampled = <<>>
  /\ distM = <<>>
  /\ k = 0
  /\ inside = FALSE
  /\ current = <<>>
  /\ overlappingSegments = <<>>
  /\ pc = "resample"
  /\ tracksData = [i \in Rows |-> NoTrack]
  /\ picked = {}
  /\ alerted = FALSE
  /\ overlapLayer = NoLayer
  /\ statsSection = NoStats
  /\ UiLeftOut
  /\ PickersLeftOut
  /\ HaversineLeftOut

\* d <= shortLenKm: sampled.push(turf.along(shortLine, d)); d += stepKm
ResampleStep ==
  /\ pc = "resample"
  /\ LoopD <= LineLength(shortLine)
  /\ sampled' = Append(sampled, Along(shortLine, LoopD))
  /\ UNCHANGED <<tracksData, picked, alerted, shortLine, longLine,
                 overlapLayer, statsSection>>
  /\ UNCHANGED <<loopVars, uiVars, pickerVars, havVars>>

\* d > shortLenKm: the loop ends, the last coordinate is appended if the last
\* sample differs from it, and the for-of loop is entered.  distM holds the
\* distance each iteration of that loop will compute for its sample.
ResampleEnds ==
  /\ pc = "resample"
  /\ LoopD > LineLength(shortLine)
  /\ sampled' = AppendLastCoord(sampled, shortLine)
  /\ distM' = [i \in 1..Len(sampled') |->
                 PointToLineDistance(sampled'[i], longLine)]
  /\ pc' = "loop"
  /\ UNCHANGED <<k, inside, current, overlappingSegments>>
  /\ UNCHANGED <<tracksData, picked, alerted, shortLine, longLine,
                 overlapLayer, statsSection>>
  /\ UNCHANGED <<uiVars, pickerVars, havVars>>

NextRun ==
  \/ ResampleStep
  \/ ResampleEnds
  \/ Next

\* The loops are synchronous code: an iteration that can run does run.
SpecRun == InitRun /\ [][NextRun]_vars /\ WF_vars(NextRun)

-----------------------------------------------------------------------------
\* The variants of the resampling code: src/app.js:344-355 and
\* src/unnamed/part_000:778-787 compare the last sample with the last
\* coordinate by value, src/unnamed/part_001:464-473 compares the two arrays
\* by identity.

\* Positions of the points of the resampled tracks.
StepCoords == {0, 20, 35}

\* The resampled line strings; the longest is 70 m.
StepLines == SeqsOf(StepCoords, 2, 3)

\* The reference line strings, each 97 m long.
StepRefs == {<<0, 97>>, <<35, 132>>}

\* Which array turf.along returns: the i-th coordinate of the line itself
\* when it stops on it or past the end, 0 for an array it has built.
RECURSIVE AlongRefFrom(_, _, _, _)
AlongRefFrom(line, d, i, travelled) ==
  IF d >= travelled /\ i = Len(line) THEN i
  ELSE IF travelled >= d
       THEN IF travelled = d THEN i ELSE 0
       ELSE AlongRefFrom(line, d, i + 1, travelled + Distance(line[i], line[i + 1]))

AlongRef(line, d) == AlongRefFrom(line, d, 1, 0)

\* The array each stepped sample is: sample n is turf.along at (n - 1) steps.
SteppedRefs(line) ==
  [n \in 1..Len(SteppedSamples(line)) |->
     AlongRef(line, (n - 1) * RESAMPLE_STEP_METERS)]

\* if (sampled.length === 0 || sampled[sampled.length - 1] !== coordinates.slice(-1)[0])
\*     sampled.push(coordinates.slice(-1)[0])
AppendLastByIdentity(smp, refs, line) ==
  IF smp = <<>> \/ refs[Len(refs)] # Len(line)
  THEN Append(smp, line[Len(line)])
  ELSE smp

\* The resampling of part_001.
ResampleByIdentity(line) ==
  AppendLastByIdentity(SteppedSamples(line), SteppedRefs(line), line)

\* findAndDrawOverlap at its resampling: shortLine and longLine are chosen.
InitResample ==
  /\ \E ls1 \in StepLines, ls2 \in StepRefs :
        LET first == ProbeIsFirst(LineLength(ls1), LineLength(ls2))
        IN /\ shortLine = (IF first THEN ls1 ELSE ls2)
           /\ longLine = (IF first THEN ls2 ELSE ls1)
  /\ sampled = <<>>
  /\ distM = <<>>
  /\ k = 0
  /\ inside = FALSE
  /\ current = <<>>
  /\ overlappingSegments = <<>>
  /\ pc = "idle"
  /\ tracksData = [i \in Rows |-> NoTrack]
  /\ picked = {}
  /\ alerted = FALSE
  /\ overlapLayer = NoLayer
  /\ statsSection = NoStats
  /\ UiLeftOut
  /\ PickersLeftOut
  /\ HaversineLeftOut

\* The rest of findAndDrawOverlap up to the push after the for-of loop, with
\* smp the resampled probe.
ClassifySamples(smp) ==
  LET dists == [i \in 1..Len(smp) |-> PointToLineDistance(smp[i], longLine)]
      st == Classify(dists)
  IN /\ sampled' = smp
     /\ distM' = dists
     /\ k' = Len(dists)
     /\ inside' = st.inside
     /\ current' = st.current
     /\ overlappingSegments' = st.segments
     /\ pc' = "done"
     /\ UNCHANGED <<tracksData, picked, alerted, shortLine, longLine,
                    overlapLayer, statsSection>>
     /\ UNCHANGED <<uiVars, pickerVars, havVars>>

\* Resampling and classification of app.js and part_000.
ResampleByValue ==
  /\ pc = "idle"
  /\ ClassifySamples(Resample(shortLine))

\* Resampling and classification of part_001.
ResampleEarlier ==
  /\ pc = "idle"
  /\ ClassifySamples(ResampleByIdentity(shortLine))

NextResample ==
  \/ ResampleByValue
  \/ ResampleEarlier

SpecResample == InitResample /\ [][NextResample]_vars

-----------------------------------------------------------------------------
\* Vocabulary of the properties.

\* The set of samples of a segment.
SamplesOf(seg) == {seg[i] : i \in 1..Len(seg)}

\* The samples that belong to some segment of the list segs.
EmittedSamples(segs) == UNION {SamplesOf(segs[p]) : p \in 1..Len(segs)}

\* seg is a run of consecutive samples in their original order.
Contiguous(seg) == \A i \in 1..(Len(seg) - 1) : seg[i + 1] = seg[i] + 1

\* The last segment of a non-empty list.
LastSegment(segs) == segs[Len(segs)]

\* This step is one iteration of the for-of loop, on sample k + 1.
ConsumesSample == pc = "loop" /\ k < Len(distM) /\ k' = k + 1

\* This step is the statement after the loop.
LeavesLoop == pc = "loop" /\ pc' = "done"

-----------------------------------------------------------------------------
\* C1 - Classifier entry.  For every sample processed while the classifier is
\* OUTSIDE: it becomes INSIDE iff the sample's distance is <= enterThresh
\* (20 m), and then the open segment is exactly that one sample; otherwise it
\* stays OUTSIDE with no open segment.
C1_EntryIffWithinEnter ==
  [][ (ConsumesSample /\ ~inside) =>
        IF distM[k + 1] <= enterThresh
        THEN inside' /\ current' = <<k + 1>>
        ELSE ~inside' /\ current' = <<>> ]_vars

\* A sample later than the first has just opened a segment, on the threshold.
C1_Witness ==
  /\ pc = "loop" /\ k >= 2
  /\ inside /\ current = <<k>>
  /\ distM[k] = enterThresh

\* C2 - Classifier exit.  For every sample processed while INSIDE with
\* distance > exitThresh (25 m): the classifier becomes OUTSIDE, the open
\* segment is emitted iff it holds at least 2 samples (a 1-sample one is
\* discarded), the open segment is reset to empty, and the sample that
\* triggered the exit is in no segment, emitted or open.
C2_ExitEmitsOrDiscards ==
  [][ (ConsumesSample /\ inside /\ distM[k + 1] > exitThresh) =>
        /\ ~inside'
        /\ current' = <<>>
        /\ (Len(current) >= 2 =>
              overlappingSegments' = Append(overlappingSegments, current))
        /\ (Len(current) < 2 => overlappingSegments' = overlappingSegments)
        /\ (k + 1) \notin EmittedSamples(overlappingSegments') ]_vars

\* An exit has just discarded a 1-sample open segment: sample k - 1 was near,
\* sample k is beyond the exit threshold, and nothing was emitted.
C2_Witness ==
  /\ pc = "loop" /\ k >= 2
  /\ ~inside /\ current = <<>>
  /\ distM[k] > exitThresh /\ distM[k - 1] <= enterThresh
  /\ (k >= 3 => distM[k - 2] > exitThresh)
  /\ overlappingSegments = <<>>

\* C3 - Classifier hold.  For every sample processed while INSIDE with
\* distance <= exitThresh (the band (enterThresh, exitThresh] included): the
\* classifier stays INSIDE, the sample is appended to the end of the open
\* segment, and no segment is emitted at that step.
C3_HoldAppends ==
  [][ (ConsumesSample /\ inside /\ distM[k + 1] <= exitThresh) =>
        /\ inside'
        /\ current' = Append(current, k + 1)
        /\ overlappingSegments' = overlappingSegments ]_vars

\* A sample in the hysteresis band has just been appended to the open segment.
C3_Witness ==
  /\ pc = "loop" /\ k >= 2
  /\ inside /\ Len(current) >= 2 /\ current[Len(current)] = k
  /\ distM[k] > enterThresh /\ distM[k] <= exitThresh

\* C4 - End of stream.  When the last sample has been processed: if the
\* classifier is still INSIDE and the open segment holds at least 2 samples,
\* that segment is emitted as the last segment; if it holds exactly 1 sample,
\* nothing is emitted for it.
C4_EndOfStream ==
  [][ LeavesLoop =>
        /\ ((inside /\ Len(current) >= 2) =>
              overlappingSegments' = Append(overlappingSegments, current))
        /\ (Len(current) = 1 => overlappingSegments' = overlappingSegments) ]_vars

\* The stream ended INSIDE and the open segment became the last emitted one,
\* after an earlier segment.
C4_Witness ==
  /\ pc = "done" /\ inside /\ Len(current) >= 2
  /\ Len(overlappingSegments) = 2
  /\ LastSegment(overlappingSegments) = current

\* C5 - With enter = 20 and exit = 25 the distance stream [5, 5, 22, 5, 5]
\* produces exactly one segment, holding all five samples in order: the
\* excursion to 22 does not break the segment.
C5_ExcursionInBandKeepsSegment ==
  (pc = "done" /\ distM = <<5, 5, 22, 5, 5>>) =>
     overlappingSegments = << <<1, 2, 3, 4, 5>> >>

\* The stream [5, 5, 22, 5, 5] has been classified to its end.
C5_Witness ==
  /\ pc = "done" /\ distM = <<5, 5, 22, 5, 5>>
  /\ Len(overlappingSegments) = 1

\* C6 - With enter = 20 and exit = 25 the distance stream [5, 5, 30, 5, 5]
\* produces exactly two segments of 2 samples each, samples 1-2 and samples
\* 4-5; the sample at distance 30 belongs to neither.
C6_ExcursionBeyondExitSplits ==
  (pc = "done" /\ distM = <<5, 5, 30, 5, 5>>) =>
     /\ overlappingSegments = << <<1, 2>>, <<4, 5>> >>
     /\ 3 \notin EmittedSamples(overlappingSegments)

\* The stream [5, 5, 30, 5, 5] has been classified to its end.
C6_Witness ==
  /\ pc = "done" /\ distM = <<5, 5, 30, 5, 5>>
  /\ Len(overlappingSegments) = 2

\* C7, first half - the stream [30, 5, 30] yields no segment.
LoneSampleStreamDropped ==
  (pc = "done" /\ distM = <<30, 5, 30>>) => overlappingSegments = <<>>

\* Sample j is at distance <= enterThresh and has, on each side, a sample
\* beyond exitThresh, or on one side the end of the stream and on the other a
\* sample beyond exitThresh.
LoneNearSample(j) ==
  /\ j \in 1..Len(distM)
  /\ Len(distM) >= 2
  /\ distM[j] <= enterThresh
  /\ (j > 1 => distM[j - 1] > exitThresh)
  /\ (j < Len(distM) => distM[j + 1] > exitThresh)

\* The same, as the claim words the case of a stream end: the sample before
\* the last one need only be beyond enterThresh.
LoneNearSampleAsClaimed(j) ==
  /\ j \in 1..Len(distM)
  /\ Len(distM) >= 2
  /\ distM[j] <= enterThresh
  /\ (j > 1 =>
        IF j = Len(distM) THEN distM[j - 1] > enterThresh
                          ELSE distM[j - 1] > exitThresh)
  /\ (j < Len(distM) => distM[j + 1] > exitThresh)

\* C7 as claimed - [30, 5, 30] yields no segment, and any run of exactly one
\* sample at distance <= enterThresh bounded on both sides by samples beyond
\* exitThresh, or by a stream end on one side and a sample beyond enterThresh
\* (before it) / beyond exitThresh (after it) on the other, is in no emitted
\* segment.
C7_LoneSampleDroppedAsClaimed ==
  /\ LoneSampleStreamDropped
  /\ pc = "done" =>
       \A j \in 1..Len(distM) :
          LoneNearSampleAsClaimed(j) => j \notin EmittedSamples(overlappingSegments)

\* C7 amended - [30, 5, 30] yields no segment, and any run of exactly one
\* sample at distance <= enterThresh bounded on both sides by samples beyond
\* exitThresh, or by a stream end on one side and a sample beyond exitThresh
\* on the other, is in no emitted segment.
C7_LoneSampleDropped ==
  /\ LoneSampleStreamDropped
  /\ pc = "done" =>
       \A j \in 1..Len(distM) :
          LoneNearSample(j) => j \notin EmittedSamples(overlappingSegments)

\* A stream that ends with a lone near sample, after a real segment, has been
\* classified to its end.
C7_Witness ==
  /\ pc = "done"
  /\ LoneNearSample(Len(distM))
  /\ overlappingSegments # <<>>

\* C8 - At every point during and after classification, every emitted segment
\* holds at least 2 samples and is a run of consecutive samples of the
\* resampled probe track, among those already processed, in original order.
C8_SegmentsAreContiguousRuns ==
  \A p \in 1..Len(overlappingSegments) :
     /\ Len(overlappingSegments[p]) >= 2
     /\ Contiguous(overlappingSegments[p])
     /\ SamplesOf(overlappingSegments[p]) \subseteq 1..k

\* Mid-stream, with one segment emitted and another one open.
C8_Witness ==
  /\ pc = "loop" /\ inside
  /\ Len(overlappingSegments) >= 1
  /\ Len(current) >= 2

\* C9 - Emitted segments are pairwise disjoint and not adjacent: two distinct
\* emitted segments share no sample, and between the last sample of the
\* earlier and the first sample of the later there is a sample that belongs
\* to no emitted segment.
C9_SegmentsDisjointWithGap ==
  \A p, q \in 1..Len(overlappingSegments) :
     p # q =>
       LET a == overlappingSegments[p]
           b == overlappingSegments[q]
       IN /\ SamplesOf(a) \cap SamplesOf(b) = {}
          /\ (a[1] <= b[1] =>
                \E g \in (a[Len(a)] + 1)..(b[1] - 1) :
                   g \notin EmittedSamples(overlappingSegments))

\* Two segments have been emitted with a single sample between them.
C9_Witness ==
  /\ Len(overlappingSegments) = 2
  /\ overlappingSegments[2][1] = overlappingSegments[1][Len(overlappingSegments[1])] + 2

\* The emitted list is in traversal order, and no emitted segment spans a
\* sample beyond exitThresh.
OrderedAndUnmerged ==
  /\ \A p, q \in 1..Len(overlappingSegments) :
        p < q => overlappingSegments[p][1] < overlappingSegments[q][1]
  /\ \A p \in 1..Len(overlappingSegments) :
        \A a, b \in SamplesOf(overlappingSegments[p]) :
           \A g \in (a + 1)..(b - 1) : distM[g] <= exitThresh

\* A step leaves the emitted list alone or adds one segment at its end.
EmitsAtEnd ==
  \/ overlappingSegments' = overlappingSegments
  \/ /\ Len(overlappingSegments') = Len(overlappingSegments) + 1
     /\ SubSeq(overlappingSegments', 1, Len(overlappingSegments)) = overlappingSegments

\* C10 - Segments are emitted in the probe's traversal order and never
\* merged: the emitted list is ordered by the sample index of each segment's
\* first sample, it only grows at its end, and two runs of near samples
\* separated by even one sample beyond exitThresh are never in one segment.
C10_TraversalOrderNoMerge ==
  /\ []OrderedAndUnmerged
  /\ [][EmitsAtEnd]_vars

\* Two runs of near samples separated by a single sample beyond exitThresh
\* were both closed inside the loop and emitted as two segments, in order.
C10_Witness ==
  /\ pc = "done" /\ Len(distM) = 6
  /\ distM[3] > exitThresh /\ distM[6] > exitThresh
  /\ overlappingSegments = << <<1, 2>>, <<4, 5>> >>

-----------------------------------------------------------------------------
\* Properties of whole comparisons (SpecCompare).

\* The last element of a non-empty sequence.
Last(seq) == seq[Len(seq)]

\* The number of offsets 0, step, 2 step, ... that do not exceed len.
SteppedCount(len) == (len \div RESAMPLE_STEP_METERS) + 1

\* The arc-length offset of the i-th stepped sample.
OffsetOf(i) == (i - 1) * RESAMPLE_STEP_METERS

\* C11 - Endpoint coverage.  In every comparison the last element of the
\* resampled sequence is the probe's last point; a probe of total length 97
\* resampled at step 10 yields the samples at offsets 0, 10, ..., 90 followed
\* by its last point (offset 97).
C11_LastSampleIsLastPoint ==
  Compared =>
     /\ sampled # <<>>
     /\ Last(sampled) = Last(shortLine)
     /\ (LineLength(shortLine) = 97 =>
           /\ Len(sampled) = 11
           /\ \A i \in 1..10 : sampled[i] = Along(shortLine, OffsetOf(i))
           /\ sampled[11] = Along(shortLine, 97))
     /\ (shortLine = <<0, 97>> =>
           sampled = <<0, 10, 20, 30, 40, 50, 60, 70, 80, 90, 97>>)

\* The track from 0 to 97 has been resampled as the probe.
C11_Witness ==
  /\ Compared
  /\ shortLine = <<0, 97>>
  /\ Len(sampled) = 11

\* C12 - Resampling walks the offsets 0, step, 2 step, ... up to and including
\* the probe's total length: the first sample is the probe's first point, the
\* i-th stepped sample is the point at arc length (i - 1) step, so consecutive
\* ones are one step apart (in position too, on a straight probe), no stepped
\* sample has an offset beyond the total length, and the walk stops only
\* when the next offset would exceed it.
C12_SteppedOffsets ==
  Compared =>
     LET len == LineLength(shortLine)
         n == SteppedCount(len)
     IN /\ Len(sampled) \in {n, n + 1}
        /\ sampled[1] = shortLine[1]
        /\ \A i \in 1..n :
              /\ OffsetOf(i) <= len
              /\ sampled[i] = Along(shortLine, OffsetOf(i))
        /\ OffsetOf(n + 1) > len
        /\ (Len(shortLine) = 2 =>
              \A i \in 1..(n - 1) :
                 Distance(sampled[i], sampled[i + 1]) = RESAMPLE_STEP_METERS)

\* A probe several steps long has been resampled.
C12_Witness ==
  /\ Compared
  /\ LineLength(shortLine) > 3 * RESAMPLE_STEP_METERS
  /\ Len(sampled) = SteppedCount(LineLength(shortLine)) + 1

\* C13 - Probe selection.  In every comparison the track of smaller total
\* length is the one resampled and the track of larger total length is the
\* one the distances are measured against; the probe is never strictly longer
\* than the reference.
C13_ProbeIsShorter ==
  Compared =>
     LET ls1 == tracksData[1].points
         ls2 == tracksData[2].points
     IN /\ LineLength(shortLine) <= LineLength(longLine)
        /\ (LineLength(ls1) < LineLength(ls2) => shortLine = ls1 /\ longLine = ls2)
        /\ (LineLength(ls2) < LineLength(ls1) => shortLine = ls2 /\ longLine = ls1)
        /\ sampled[1] = shortLine[1] /\ Last(sampled) = Last(shortLine)
        /\ \A i \in 1..Len(sampled) :
              distM[i] = PointToLineDistance(sampled[i], longLine)

\* The second track is the strictly shorter one and was resampled.
C13_Witness ==
  /\ Compared
  /\ LineLength(tracksData[2].points) < LineLength(tracksData[1].points)
  /\ shortLine = tracksData[2].points

\* The overlap length findAndDrawOverlap computes from the segments.
OverlapLength == MultiLineLength(SegmentLines(overlappingSegments, sampled))

\* The set of lines a comparison result draws.
LinesOf(segs, smp) == {CoordsOf(segs[p], smp) : p \in 1..Len(segs)}

\* C14 as claimed - Symmetry.  For all pairs of valid tracks A and B, also of
\* equal total length, comparing (A, B) and comparing (B, A) select the same
\* probe and reference and yield the same overlap length and the same set of
\* segments.
C14_SymmetricAsClaimed ==
  Compared =>
     LET r == FindOverlap(tracksData[2], tracksData[1])
     IN /\ r.shortLine = shortLine
        /\ r.longLine = longLine
        /\ MultiLineLength(SegmentLines(r.segments, r.sampled)) = OverlapLength
        /\ LinesOf(r.segments, r.sampled) = LinesOf(overlappingSegments, sampled)

\* C15 - Bounded overlap.  In every comparison the overlap length, the sum of
\* the lengths of the emitted segments, is at most the total length of the
\* shorter track (the lengths turf.length gives, by which the probe is chosen).
C15_OverlapAtMostShorter ==
  Compared =>
     /\ OverlapLength <=
          Min2(LineLength(tracksData[1].points), LineLength(tracksData[2].points))
     /\ (overlapLayer # NoLayer => MultiLineLength(overlapLayer[1]) = OverlapLength)
     /\ (statsSection.display = "block" =>
           statsSection.items[1] = ToFixed2(OverlapLength))

\* A short track lying wholly on a strictly longer one: the overlap is the
\* whole length of the shorter.
C15_Witness ==
  /\ Compared
  /\ LineLength(tracksData[1].points) > LineLength(tracksData[2].points)
  /\ LineLength(tracksData[2].points) > 0
  /\ OverlapLength = LineLength(tracksData[2].points)

\* C16 - Non-negative uniques.  Whenever a comparison result is reported, the
\* unique distance shown for each track is max(0, the track's stored length -
\* overlap length), so it is never negative, also when the overlap length
\* exceeds the stored length.
C16_UniquesClampedAtZero ==
  statsSection.display = "block" =>
     /\ Len(statsSection.items) = 3
     /\ \A t \in Rows :
           /\ statsSection.items[t + 1] =
                ToFixed2(IF tracksData[t].totalDistance - OverlapLength > 0
                         THEN tracksData[t].totalDistance - OverlapLength
                         ELSE 0)
           /\ ~statsSection.items[t + 1].neg

\* A result is reported whose overlap length exceeds the stored length of the
\* first track.
C16_Witness ==
  /\ statsSection.display = "block"
  /\ OverlapLength > tracksData[1].totalDistance
  /\ statsSection.items[2] = [neg |-> FALSE, centi |-> 0]

\* Both rows hold the same points.
IdenticalTracks == Compared /\ tracksData[1].points = tracksData[2].points

\* The one segment that holds every sample.
AllSamples == [i \in 1..Len(sampled) |-> i]

\* 0.00
ZeroFixed == [neg |-> FALSE, centi |-> 0]

AllFar == \A i \in 1..Len(distM) : distM[i] > exitThresh

\* C18 - Disjoint tracks.  If every resampled sample of the probe is farther
\* than exitThresh from the reference, the classifier never leaves OUTSIDE
\* (at no step is it INSIDE or a segment open), the segment list is empty and
\* the overlap length, the sum over the segments, is 0.
C18_DisjointNeverInside ==
  AllFar =>
     /\ ~inside
     /\ current = <<>>
     /\ overlappingSegments = <<>>
     /\ OverlapLength = 0

\* A stream of several samples, all far, has been classified to its end.
C18_Witness ==
  /\ pc = "done"
  /\ AllFar
  /\ Len(distM) >= 3
  /\ k = Len(distM)

\* C19 as claimed - Empty result.  When a comparison of two valid tracks
\* produces no segments, it completes without raising an error and reports a
\* result with overlap length 0 and an empty segment list: the result is
\* produced, not omitted.
C19_EmptyResultReported ==
  (Compared /\ overlappingSegments = <<>>) =>
     /\ ~alerted
     /\ statsSection.display = "block"
     /\ statsSection.items[1] = ZeroFixed

\* C20 as claimed - Invalid tracks are rejected at construction: a point
\* sequence of fewer than 2 points is never stored as a loaded track, so it is
\* never an operand of a comparison.
C20_ShortTracksRejected ==
  \A i \in Rows : tracksData[i] # NoTrack => Len(tracksData[i].points) >= 2

-----------------------------------------------------------------------------
\* Properties of the page (SpecUI).

\* The rows that hold a track.
Loaded == {i \in DOMAIN tracksData : tracksData[i] # NoTrack}

\* An overlap result is shown: the layer, its polyline on the map or the stats.
ResultPresent ==
  \/ overlapLayer # NoLayer
  \/ mapOverlap # <<>>
  \/ statsSection.display = "block"

\* The loaded row of lowest index and the one of highest index.
FirstLoaded == MinOf(Loaded)

SecondLoaded == CHOOSE i \in Loaded : \A j \in Loaded : j <= i

\* The classifier started OUTSIDE, with no open segment and no segments.
Outside == [inside |-> FALSE, current |-> <<>>, segments |-> <<>>]

\* C21 - Pairwise only.  After any sequence of file loads and track removals
\* an overlap result (overlap layer, its polyline, statistics) is present only
\* if exactly two tracks are loaded; with 0, 1, 3 or 4 loaded tracks none is.
C21_PairwiseOnly == ResultPresent => Cardinality(Loaded) = 2

\* Three tracks are loaded, the first two of them overlap, and no result is
\* shown.
C21_Witness ==
  /\ Cardinality(Loaded) = 3
  /\ tracksData[1] = StoredTrack(Winding, 1)
  /\ tracksData[2] = StoredTrack(Shuttle, 2)
  /\ ~ResultPresent

\* C22 - Recompute on change.  After every completed file load and every
\* removal, however pending reads interleave with removals and other loads,
\* the result shown is the one computed from the two tracks now stored, no
\* result is shown otherwise, and two stored tracks that overlap have a result.
C22_RecomputedOnChange ==
  IF Cardinality(Loaded) = 2
       /\ ~FindOverlapThrows(tracksData[FirstLoaded], tracksData[SecondLoaded])
  THEN LET r == Overlap(tracksData[FirstLoaded], tracksData[SecondLoaded])
       IN /\ overlapLayer = r.overlapLayer
          /\ statsSection = r.statsSection
          /\ overlappingSegments = r.segments
          /\ (r.segments # <<>> =>
                overlapLayer # NoLayer /\ statsSection.display = "block")
  ELSE ~ResultPresent

\* A read that finished after its row was cleared: the row shows an empty
\* input, holds the track, and the result shown is computed with that track.
C22_Witness ==
  /\ \E i \in Loaded : i \notin picked
  /\ Cardinality(Loaded) = 2
  /\ pending = {}
  /\ statsSection.display = "block"

\* C23 - A new comparison replaces the prior result.  At every reachable
\* state at most one overlap polyline is on the map, it is the one
\* overlapLayer refers to, and the stats list holds the three items of one
\* result: what the previous comparison drew and listed is gone.
C23_OneOverlapLayer ==
  /\ Len(mapOverlap) <= 1
  /\ mapOverlap = overlapLayer
  /\ (statsSection.display = "block" => Len(statsSection.items) = 3)
  /\ (statsSection.display = "none" => statsSection.items = <<>>)

\* A result installed by removeTrack over the previous one: the third row,
\* whose file was rejected, has been cleared while two tracks overlap.
C23_Witness ==
  /\ rowCount = 3
  /\ Loaded = {1, 2}
  /\ picked = {1, 2}
  /\ pending = {}
  /\ alerted
  /\ Len(mapOverlap) = 1

\* C24 - History independence.  The result of a comparison is a function of
\* the two tracks only: the probe and the reference are their line strings,
\* the samples and distances are those of the probe against the reference,
\* and the segments are those the classifier finds from OUTSIDE with an empty
\* open segment and an empty segment list, whatever was compared before.
C24_HistoryIndependent ==
  pc = "done" =>
     LET ls1 == tracksData[FirstLoaded].points
         ls2 == tracksData[SecondLoaded].points
         st == ClassifyFrom(distM, 1, Outside)
     IN /\ Cardinality(Loaded) = 2
        /\ \/ shortLine = ls1 /\ longLine = ls2
           \/ shortLine = ls2 /\ longLine = ls1
        /\ sampled = Resample(shortLine)
        /\ distM = [i \in 1..Len(sampled) |->
                      PointToLineDistance(sampled[i], longLine)]
        /\ inside = st.inside
        /\ current = st.current
        /\ overlappingSegments = st.segments

\* The same pair compared again, by the removal of a third row that held no
\* track: the previous run ended INSIDE and the probe's first sample lies in
\* the hysteresis band, where only a classifier that starts OUTSIDE skips it.
C24_Witness ==
  /\ pc = "done"
  /\ rowCount >= 3
  /\ Loaded = {1, 2}
  /\ picked = {1, 2}
  /\ alerted
  /\ inside
  /\ distM[1] > enterThresh /\ distM[1] <= exitThresh
  /\ overlappingSegments = << <<2, 3, 4>>, <<12, 13, 14>> >>

\* C25 - A comparison leaves the tracks unchanged.  In every step the only
\* row whose track changes is the row of the handler: the row of a finished
\* read gets the track processTrack stores, the row of a removal gets none.
\* Every other track keeps its name, its points and its total distance, and
\* no other row enters or leaves the loaded rows.
C25_TracksUnchanged ==
  [][\A j \in Slots :
        tracksData'[j] # tracksData[j] =>
           \/ /\ j \in picked /\ j \notin picked'
              /\ tracksData'[j] = NoTrack
           \/ \E f \in UiFiles :
                 /\ <<j, f>> \in pending /\ <<j, f>> \notin pending'
                 /\ tracksData'[j] = StoredTrack(f, j)]_vars

\* Two tracks have been compared and are as processTrack stored them.
C25_Witness ==
  /\ pc = "done"
  /\ statsSection.display = "block"
  /\ tracksData[1] = StoredTrack(Shuttle, 1)
  /\ tracksData[2] = StoredTrack(Winding, 2)

\* The length of a segment: the sum of the distances between its consecutive
\* samples.
SegmentLength(seg) ==
  LET sum[j \in 1..Len(seg)] ==
        IF j = 1 THEN 0
        ELSE sum[j - 1] + Distance(sampled[seg[j - 1]], sampled[seg[j]])
  IN sum[Len(seg)]

\* The sum of the lengths of the emitted segments.
SumOfSegments ==
  LET total[p \in 0..Len(overlappingSegments)] ==
        IF p = 0 THEN 0
        ELSE total[p - 1] + SegmentLength(overlappingSegments[p])
  IN total[Len(overlappingSegments)]

\* C26 - The overlap length is the sum, over the emitted segments, of the
\* segment's own polyline length; samples of no emitted segment (discarded
\* lone samples, the gaps between segments) contribute nothing.  It is the
\* overlap the stats show.
C26_OverlapIsSumOfSegments ==
  pc = "done" =>
     /\ OverlapLength = SumOfSegments
     /\ (statsSection.display = "block" =>
           statsSection.items[1] = ToFixed2(SumOfSegments))

\* Two segments of 18 m and 20 m with a gap between them that holds a lone
\* near sample: the overlap length is 38 m.
C26_Witness ==
  /\ pc = "done"
  /\ Len(overlappingSegments) = 2
  /\ \E i \in 1..Len(distM) :
        /\ distM[i] <= enterThresh
        /\ i \notin EmittedSamples(overlappingSegments)
  /\ SegmentLength(overlappingSegments[1]) = 18
  /\ SegmentLength(overlappingSegments[2]) = 20
  /\ OverlapLength = 38

\* C30 - Statistics are attributed in slot order.  The two compared tracks
\* are the two loaded tracks in ascending row order; the first (second)
\* unique distance shown is computed from the total of the first (second) of
\* them and labelled with its name, also when the first is the longer track,
\* the reference.
C30_StatsInSlotOrder ==
  statsSection.display = "block" =>
     LET t1 == tracksData[FirstLoaded]
         t2 == tracksData[SecondLoaded]
     IN /\ Cardinality(Loaded) = 2
        /\ FirstLoaded < SecondLoaded
        /\ statsSection.labels = <<t1.name, t2.name>>
        /\ statsSection.items[2] =
             ToFixed2(Max2(0, t1.totalDistance - OverlapLength))
        /\ statsSection.items[3] =
             ToFixed2(Max2(0, t2.totalDistance - OverlapLength))

\* The track of the lower row is the longer one, the reference; its name and
\* its unique distance come first.
C30_Witness ==
  /\ statsSection.display = "block"
  /\ Loaded = {2, 4}
  /\ longLine = tracksData[2].points
  /\ shortLine = tracksData[4].points
  /\ tracksData[2].totalDistance > tracksData[4].totalDistance
  /\ statsSection.labels = <<tracksData[2].name, tracksData[4].name>>
  /\ statsSection.items[2] # statsSection.items[3]

\* C27 as claimed - One total length.  The total length stored with a track,
\* from which its unique distance is reported, is the sum of the distances
\* between its consecutive points and is the length by which probe and
\* reference are chosen (the length of its line string).
C27_OneLengthAsClaimed ==
  \A i \in Rows :
     tracksData[i] # NoTrack =>
        tracksData[i].totalDistance = LineLength(tracksData[i].points)

\* The entries of tracks that hold a loaded track.
LoadedPickers == {n \in 1..Len(tracks) : tracks[n] = "loaded"}

\* C28 as claimed - At most 4 tracks.  After any sequence of add-track clicks,
\* file selections and removals, neither the number of file-picker rows nor
\* the number of loaded tracks exceeds 4, in every variant of the add-input
\* logic: here in the earlier app, whose limit tests tracks.length.
C28_AtMostFourAsClaimed ==
  /\ Len(wrappers) <= MAX_FILES
  /\ Cardinality(LoadedPickers) <= MAX_FILES
  /\ rowCount <= MAX_TRACKS

\* C29 as claimed - The haversine distance clamps the argument of the inverse
\* sine to [0, 1] and returns a finite, non-negative number of meters for
\* every pair of valid coordinates, identical and antipodal points included.
C29_ClampedAsClaimed ==
  havResult.by # "none" =>
     /\ ~havResult.nan
     /\ havResult.meters >= 0

-----------------------------------------------------------------------------
\* Properties of the two loops (SpecRun).

\* C31 - Every comparison terminates.  Both loops end: the run reaches the
\* statement after the for-of loop.  The resampling loop, with its step of
\* 10 m, never holds more than floor(length / 10) + 2 samples, and the
\* classification loop takes the samples one at a time, one distance each,
\* and has taken each of them once when it ends.
C31_Terminates ==
  /\ <>(pc = "done")
  /\ [](Len(sampled) <= LineLength(shortLine) \div 10 + 2)
  /\ [](pc \in {"loop", "done"} => Len(distM) = Len(sampled))
  /\ [](pc = "done" => k = Len(sampled))
  /\ [][k' # k => pc = "loop" /\ k' = k + 1]_vars

\* A run that has ended with as many samples as the bound allows: the length
\* is no multiple of the step, so the last coordinate was appended.
C31_Witness ==
  /\ pc = "done"
  /\ k = Len(sampled)
  /\ Len(sampled) = LineLength(shortLine) \div 10 + 2
  /\ overlappingSegments # <<>>

-----------------------------------------------------------------------------
\* Further properties of the classifier (Spec).

\* C32 - Maximal runs under hysteresis.  Every emitted segment starts on a
\* sample within enterThresh, holds only samples within exitThresh, is
\* followed, if by any sample, by one beyond exitThresh, and is preceded, if
\* by any sample, by one beyond enterThresh.
C32_MaximalRuns ==
  \A p \in 1..Len(overlappingSegments) :
     LET seg == overlappingSegments[p]
         first == seg[1]
         last == seg[Len(seg)]
     IN /\ distM[first] <= enterThresh
        /\ \A i \in SamplesOf(seg) : distM[i] <= exitThresh
        /\ (last < Len(distM) => distM[last + 1] > exitThresh)
        /\ (first > 1 => distM[first - 1] > enterThresh)

\* A segment emitted inside the loop that holds a sample of the hysteresis
\* band and comes right after a sample of the band.
C32_Witness ==
  /\ Len(overlappingSegments) = 1
  /\ LET seg == overlappingSegments[1]
     IN /\ seg[1] > 1
        /\ distM[seg[1] - 1] <= exitThresh
        /\ \E i \in SamplesOf(seg) : distM[i] > enterThresh
        /\ seg[Len(seg)] < Len(distM)

\* C33 - Classifier state coupling.  After every sample, and after the loop,
\* the classifier is INSIDE exactly if the open segment is not empty.
C33_InsideIffOpen ==
  inside <=> current # <<>>

\* A segment has been closed and emptied, and the next one has just opened.
C33_Witness ==
  /\ pc = "loop"
  /\ overlappingSegments # <<>>
  /\ inside
  /\ current = <<k>>

\* C34 - No near sample is skipped.  enterThresh is at most exitThresh, so
\* right after a sample within enterThresh the classifier is INSIDE and the
\* sample is the last of the open segment, whatever the state before it.
C34_NearSampleKept ==
  /\ enterThresh <= exitThresh
  /\ (pc = "loop" /\ k >= 1 /\ distM[k] <= enterThresh) =>
        /\ inside
        /\ current # <<>>
        /\ current[Len(current)] = k

\* A sample within enterThresh taken while INSIDE, after one of the band.
C34_Witness ==
  /\ pc = "loop"
  /\ k >= 3
  /\ distM[k] <= enterThresh
  /\ distM[k - 1] > enterThresh
  /\ inside
  /\ current = <<k - 2, k - 1, k>>

-----------------------------------------------------------------------------
\* Property of the resampling variants (SpecResample).

\* C35 as claimed - The final point is never emitted twice.  In every variant
\* of the resampling code, when the length of the probe is a multiple of the
\* step, 0 included, the last two samples are not both the last point of the
\* track, and every emitted segment has a positive length.
C35_FinalPointOnceAsClaimed ==
  (pc = "done" /\ LineLength(shortLine) % RESAMPLE_STEP_METERS = 0) =>
     /\ Len(sampled) >= 2 => sampled[Len(sampled) - 1] # sampled[Len(sampled)]
     /\ \A p \in 1..Len(overlappingSegments) :
           LineLength(CoordsOf(overlappingSegments[p], sampled)) > 0

-----------------------------------------------------------------------------
\* Property of the page without a stats container (SpecPage).

\* C36 as claimed - Overlap layer and statistics are coupled.  Between
\* handlers the statistics section is visible exactly if an overlap layer is
\* present, and both are present exactly if the last comparison emitted a
\* segment.
C36_CoupledAsClaimed ==
  /\ statsSection.display = "block" <=> overlapLayer # NoLayer
  /\ overlapLayer # NoLayer <=> overlappingSegments # <<>>

-----------------------------------------------------------------------------
\* Properties of two rows whose file names are kept (SpecRows).

\* C37 as claimed - Removal is not undone by a pending load.  Between
\* handlers a slot holds a stored track only if its row shows a file name
\* and the remove button.
C37_RemovalKeptAsClaimed ==
  \A i \in Slots : tracksData[i] # NoTrack => rowFile[i] # NoFile

\* C38 as claimed - Latest selection wins per slot.  Once no read of a row
\* is pending, the track stored in its slot is the one of the file whose
\* name the row shows.
C38_LatestWinsAsClaimed ==
  \A i \in Slots :
     /\ \A f \in UiFiles : <<i, f>> \notin pending
     /\ rowFile[i] \in {Winding, Shuttle}
     => tracksData[i] = StoredTrack(rowFile[i], i)

-----------------------------------------------------------------------------
\* Property of failed loads (SpecCompare).

\* C39 as claimed - A failed load changes nothing.  Whenever the handling of
\* a picked file ends in the catch branch, the stored tracks, the overlap
\* layer and the statistics are those of before the file was picked.
C39_FailedLoadAsClaimed ==
  [][(picked' # picked /\ alerted') =>
       /\ tracksData' = tracksData
       /\ overlapLayer' = overlapLayer
       /\ statsSection' = statsSection]_vars

-----------------------------------------------------------------------------
\* Property of removals on the page (SpecUI).

\* C40 - Removing slot i affects only slot i.  A step that clears row i
\* leaves the stored track, the polyline and the chart dataset of every other
\* slot and the number of rows as they were, and the overlap result after it
\* is the one checkForOverlap computes from the tracks that remain.
C40_RemovalFrame ==
  [][\A i \in Slots :
       (i \in picked /\ i \notin picked') =>
          /\ \A j \in Slots \ {i} :
                /\ tracksData'[j] = tracksData[j]
                /\ mapLayers'[j] = mapLayers[j]
                /\ chartDatasets'[j] = chartDatasets[j]
          /\ rowCount' = rowCount
          /\ LET r == CheckForOverlap([tracksData EXCEPT ![i] = NoTrack])
             IN /\ overlapLayer' = r.overlapLayer
                /\ statsSection' = r.statsSection
                /\ overlappingSegments' = r.overlappingSegments]_vars

\* The second of three rows has been cleared after its file was rejected:
\* rows 1 and 3 still hold their tracks, polylines and the dataset of
\* Winding, three rows are on the page and the two tracks have a result.
C40_Witness ==
  /\ alerted
  /\ rowCount = 3
  /\ picked = {1, 3}
  /\ pending = {}
  /\ tracksData[1] = StoredTrack(Winding, 1)
  /\ tracksData[3] = StoredTrack(Shuttle, 3)
  /\ tracksData[2] = NoTrack
  /\ mapLayers[1] # NoLayer /\ mapLayers[3] # NoLayer /\ mapLayers[2] = NoLayer
  /\ chartDatasets[1] # NoLayer
  /\ overlapLayer # NoLayer

====
